---- MODULE Spec2Model ----
(***************************************************************************)
(* Model of src/app.py: the Poppler locator, the PDF -> TIFF rasterizer,   *)
(* the three PowerPoint -> PDF backends and the Streamlit page script      *)
(* with its session state.                                                 *)
(*                                                                         *)
(* Python functions are operators that return a record                     *)
(*   [raised, ret, log, ...]                                               *)
(* where log is the sequence of observable events (subprocess launches,    *)
(* library calls, messages shown through streamlit) in program order.      *)
(* Exceptions are explicit: an inner step yields kind "raise" and every     *)
(* try/except of the source is the place where that kind is turned into    *)
(* something else.                                                         *)
(***************************************************************************)
EXTENDS Naturals, Sequences, FiniteSets

VARIABLES env, session, call

vars == <<env, session, call>>

(***************************************************************************)
(* Bounds of the model.                                                    *)
(***************************************************************************)
\* at most this many toolset files exist on the modelled filesystem
MaxInstalled == 2
\* at most this many toolset files exist where the document varies as well
MaxInstalledSmall == 1
\* a rasterized document has at most this many pages
MaxPages == 3
\* a presentation has at most this many slides
MaxSlides == 3

(***************************************************************************)
(* Values.                                                                 *)
(***************************************************************************)
\* Paths are tuples of components: a directory is <<"/usr/bin">>, a file in
\* it <<"/usr/bin", "pdftoppm">>.
\* Python's None where a path is expected
None == <<>>
\* the empty string where a path is expected
EmptyStr == <<"">>

\* Python's None where a string is expected
NoneStr == "<None>"

\* truthiness of an optional string (None and '' are falsy)
StrTruthy(x) == x \notin {NoneStr, ""}

\* truthiness of an optional path string (None and '' are falsy)
Truthy(v) == v \notin {None, EmptyStr}

\* os.path.join(directory, name)
Join(d, n) == d \o <<n>>

\* os.path.dirname(path)
Dirname(p) == SubSeq(p, 1, Len(p) - 1)

\* one observable event: what happened, on which path, with which
\* argument, and how it ended
Ev(e, p, a, r) == [e |-> e, p |-> p, a |-> a, r |-> r]

(***************************************************************************)
(* The environment: the toolset files on disk, POPPLER_PATH, the PATH      *)
(* lookup.                                                                 *)
(***************************************************************************)
\* poppler_paths[2..7], the hard-coded install locations, in list order
HardCodedPaths ==
    << <<"/usr/bin", "pdftoppm">>,
       <<"/usr/local/bin", "pdftoppm">>,
       <<"/opt/homebrew/bin", "pdftoppm">>,
       <<"/app/.apt/usr/bin", "pdftoppm">>,
       <<"/app/.apt/usr/bin", "pdftocairo">>,
       <<"/usr/bin", "pdftocairo">> >>

\* a directory that is not hard-coded: reachable through POPPLER_PATH or PATH
CustomDir == <<"/opt/poppler">>

\* every file location the model tracks
Paths ==
    {HardCodedPaths[i] : i \in 1..Len(HardCodedPaths)}
        \cup {Join(CustomDir, "pdftoppm"), Join(CustomDir, "pdftocairo")}

\* what is at a location.  absent: nothing.  dir: a directory of that name.
\* Otherwise a file, named by how its version queries end:
\*   ok          '-v' runs and reports a version or exits 0
\*   bad         '-v' runs, exits non-zero and reports no version
\*   raise_ok    '-v' cannot be run (timeout, permission, undecodable
\*               output), '--version' runs and reports
\*   raise_bad   '-v' cannot be run, '--version' runs and reports nothing
\*   raise_raise neither can be run
FileKinds == {"ok", "bad", "raise_ok", "raise_bad", "raise_raise"}

InstalledKinds == FileKinds \cup {"dir"}

\* os.path.exists(path): true of files and of directories
Exists(e, p) == p \in Paths /\ e.inst[p] # "absent"

\* os.path.isdir(path)
IsDir(e, p) == p \in Paths /\ e.inst[p] = "dir"

\* subprocess.run([path, flag], capture_output=True, timeout=5) followed by
\* the decode and the test "'version' in output or returncode == 0":
\* "ok" the test passes, "bad" it fails, "raise" an exception came first
RunVersion(e, p, flag) ==
    LET k == e.inst[p] IN
    IF k = "ok" THEN "ok"
    ELSE IF k = "bad" THEN "bad"
    ELSE IF flag = "-v" THEN "raise"
    ELSE IF k = "raise_ok" THEN "ok"
    ELSE IF k = "raise_bad" THEN "bad"
    ELSE "raise"

\* shutil.which(name): raises when the PATH lookup itself fails, else the
\* resolved file or None
Which(e, name) ==
    [raised |-> name \in e.lookupFails,
     val |-> IF name = "pdftoppm" THEN e.whichPpm ELSE e.whichCairo]

\* the files of a given name that a PATH lookup can resolve to
Resolvable(inst, name) ==
    {p \in Paths : p[2] = name /\ inst[p] \in FileKinds}

\* the filesystem in which the entries S exist with the kinds k
Installation(S, k) == [p \in Paths |-> IF p \in S THEN k[p] ELSE "absent"]

\* the values of the POPPLER_PATH environment variable
PopplerPathValues == {None, EmptyStr, CustomDir, <<"/usr/bin">>}

\* env is one of the environments with at most n toolset entries on disk,
\* in which the PATH lookup fails for one of the sets of names LF
ChooseEnv(LF, n) ==
    \E S \in SUBSET Paths :
        /\ Cardinality(S) <= n
        /\ \E k \in [S -> InstalledKinds] :
             LET i == Installation(S, k) IN
             \E v \in PopplerPathValues,
                wp \in {None} \cup Resolvable(i, "pdftoppm"),
                wc \in {None} \cup Resolvable(i, "pdftocairo"),
                lf \in LF :
                 env = [inst |-> i, popplerPath |-> v, whichPpm |-> wp,
                        whichCairo |-> wc, lookupFails |-> lf]

(***************************************************************************)
(* check_poppler_available                                                 *)
(***************************************************************************)
\* lines 283-294: the POPPLER_PATH override.  kind "return" is a return
\* from the function, "fall" falls through to the candidate list.
PopplerPathOverride(e) ==
    LET v == e.popplerPath
        p == Join(v, "pdftoppm")
    IN  IF ~Truthy(v) \/ ~Exists(e, p)
        THEN [kind |-> "fall", val |-> None, log |-> <<>>]
        ELSE LET o == RunVersion(e, p, "-v") IN
             [kind |-> IF o = "ok" THEN "return" ELSE "fall",
              val |-> IF o = "ok" THEN p ELSE None,
              log |-> <<Ev("run", p, "-v", o)>>]

\* lines 297-306: the candidate list; building it raises when a PATH
\* lookup raises
PopplerPaths(e) ==
    LET w1 == Which(e, "pdftoppm")
        w2 == Which(e, "pdftocairo")
    IN  [raised |-> w1.raised \/ w2.raised,
         list |-> <<w1.val, w2.val>> \o HardCodedPaths]

\* line 327: path == shutil.which('pdftoppm') or path == shutil.which('pdftocairo')
FromPathLookup(e, p) ==
    LET w1 == Which(e, "pdftoppm")
        w2 == Which(e, "pdftocairo")
    IN  IF w1.raised THEN [raised |-> TRUE, val |-> FALSE]
        ELSE IF p = w1.val THEN [raised |-> FALSE, val |-> TRUE]
        ELSE IF w2.raised THEN [raised |-> TRUE, val |-> FALSE]
        ELSE [raised |-> FALSE, val |-> p = w2.val]

\* the mutant of AcceptUnverified that accepts every file it cannot verify
AcceptUnverified_any(e, p) == [raised |-> FALSE, val |-> TRUE]

\* lines 325-329: both queries raised; accept the file only if it came
\* from the PATH lookup
AcceptUnverified(e, p) == FromPathLookup(e, p)

\* lines 310-329: the body of the loop for one existing candidate.
\* kind: "return" (val is returned), "continue", "raise"
TryCandidate(e, p) ==
    LET o1 == RunVersion(e, p, "-v")
        e1 == Ev("run", p, "-v", o1)
    IN  IF o1 = "ok" THEN [kind |-> "return", val |-> p, log |-> <<e1>>]
        ELSE IF o1 = "bad" THEN [kind |-> "continue", val |-> None, log |-> <<e1>>]
        ELSE LET o2 == RunVersion(e, p, "--version")
                 e2 == Ev("run", p, "--version", o2)
             IN  IF o2 = "ok"
                 THEN [kind |-> "return", val |-> p, log |-> <<e1, e2>>]
                 ELSE IF o2 = "bad"
                 THEN [kind |-> "continue", val |-> None, log |-> <<e1, e2>>]
                 ELSE LET a == AcceptUnverified(e, p) IN
                      [kind |-> IF a.raised THEN "raise"
                                ELSE IF a.val THEN "return" ELSE "continue",
                       val |-> IF ~a.raised /\ a.val THEN p ELSE None,
                       log |-> <<e1, e2>>]

RECURSIVE ProbeLoop(_, _, _, _)
\* lines 308-331: for path in poppler_paths, from index i on
ProbeLoop(e, list, i, log) ==
    IF i > Len(list) THEN [kind |-> "return", val |-> None, log |-> log]
    ELSE IF list[i] = None \/ ~Exists(e, list[i])
    THEN ProbeLoop(e, list, i + 1, log)
    ELSE LET t == TryCandidate(e, list[i]) IN
         IF t.kind = "continue" THEN ProbeLoop(e, list, i + 1, log \o t.log)
         ELSE [kind |-> t.kind, val |-> t.val, log |-> log \o t.log]

\* lines 281-331: the body of the outer try
LocatorBody(e) ==
    LET o == PopplerPathOverride(e) IN
    IF o.kind = "return" THEN o
    ELSE LET l == PopplerPaths(e) IN
         IF l.raised THEN [kind |-> "raise", val |-> None, log |-> o.log]
         ELSE ProbeLoop(e, l.list, 1, o.log)

\* lines 332-340: the handler of the outer try
LocatorFallback(e, log) ==
    LET w == Which(e, "pdftoppm") IN
    [raised |-> FALSE,
     ret |-> IF ~w.raised /\ w.val # None /\ Exists(e, w.val) THEN w.val ELSE None,
     log |-> log]

\* the mutant of check_poppler_available without the outer try/except
check_poppler_available_unguarded(e) ==
    LET b == LocatorBody(e) IN
    [raised |-> b.kind = "raise", ret |-> b.val, log |-> b.log]

\* lines 278-340
check_poppler_available(e) ==
    LET b == LocatorBody(e) IN
    IF b.kind = "raise" THEN LocatorFallback(e, b.log)
    ELSE [raised |-> FALSE, ret |-> b.val, log |-> b.log]

(***************************************************************************)
(* Session state and the idle call record.                                 *)
(***************************************************************************)
\* lines 81-84: st.session_state after the first run of the script
InitSession == [last_dpi |-> 300, last_compression |-> "tiff_deflate"]

\* no function has been called yet
Idle == [op |-> "idle"]

(***************************************************************************)
(* Specification of the locator: any environment, the locator is called.   *)
(***************************************************************************)
InitLocator ==
    /\ ChooseEnv({{}}, MaxInstalled)
    /\ session = InitSession
    /\ call = Idle

InitLocatorLF ==
    /\ ChooseEnv(SUBSET {"pdftoppm", "pdftocairo"}, MaxInstalled)
    /\ session = InitSession
    /\ call = Idle

\* a call of check_poppler_available()
CallLocator ==
    /\ call' = [op |-> "check_poppler_available",
                out |-> check_poppler_available(env)]
    /\ UNCHANGED <<env, session>>

NextLocator == CallLocator

SpecLocator == InitLocator /\ [][NextLocator]_vars

SpecLocatorLF == InitLocatorLF /\ [][NextLocator]_vars

(***************************************************************************)
(* convert_pdf_to_tiff                                                     *)
(***************************************************************************)
\* Python's None where bytes are expected
NoBytes == [fmt |-> "none"]

\* compression=None
NoComp == NoneStr

\* the compression arguments the page passes (line 674)
Compressions == {"tiff_deflate", "tiff_lzw", "tiff_adobe_deflate", NoComp}

\* resolutions offered by the page (line 649), two of the nine
DpiChoices == {150, 300}

CloudDir == <<"/app/.apt/usr/bin">>

UsrBinDir == <<"/usr/bin">>

\* what one call of pdf2image.convert_from_bytes can answer: a list of n page
\* images, or an exception whose text mentions poppler, mentions the page
\* count, or mentions neither
RasterAnswers(pageCounts) ==
    {[kind |-> "images", n |-> n, msg |-> ""] : n \in pageCounts}
        \cup {[kind |-> "raise", n |-> 0, msg |-> m] :
                m \in {"poppler", "page count", "other"}}

\* the answers of the library to the successive calls one request can make:
\* a request makes no further call after one that returned images
RasterOracles(pageCounts) ==
    {<<a>> : a \in {b \in RasterAnswers(pageCounts) : b.kind = "images"}}
        \cup {<<a, b>> : a \in {c \in RasterAnswers(pageCounts) : c.kind = "raise"},
                         b \in RasterAnswers(pageCounts)}

\* a request gets as far as saving only when the last answer of the
\* rasterization library is a non-empty list of images
ReachesSave(raster) ==
    raster[Len(raster)].kind = "images" /\ raster[Len(raster)].n >= 1

\* the inputs of one convert_pdf_to_tiff call: its arguments and what the
\* rasterization library and the image library answer.  Where nothing is
\* saved the image library is not asked and one choice of arguments stands
\* for all.
TiffInputs(dpis, comps, pageCounts, saves) ==
    [dpi : dpis, compression : comps,
     raster : {r \in RasterOracles(pageCounts) : ReachesSave(r)},
     save : saves]
        \cup [dpi : {300}, compression : {"tiff_deflate"},
              raster : {r \in RasterOracles(pageCounts) : ~ReachesSave(r)},
              save : {"ok"}]

\* the list of page images convert_from_bytes returns for an n-page document
Images(n, dpi) == [i \in 1..n |-> [page |-> i, dpi |-> dpi]]

\* the mutant of NotFoundBranch that attempts the conversion in any case
NotFoundBranch_always_go(e) ==
    [kind |-> "go", log |-> <<Ev("st.info", None, "detection_failed", "")>>]

\* lines 350-374: the locator found nothing; "stop" returns the
\* installation remediation, "go" attempts the conversion anyway
NotFoundBranch(e) ==
    LET is_streamlit_cloud ==
            Exists(e, Join(CloudDir, "pdftoppm"))
                \/ Exists(e, Join(CloudDir, "pdftocairo"))
    IN  IF ~is_streamlit_cloud
        THEN [kind |-> "stop",
              log |-> <<Ev("st.error", None, "poppler_not_installed", "")>>]
        ELSE [kind |-> "go",
              log |-> <<Ev("st.info", None, "detection_failed", "")>>]

\* the mutant of PopplerDir that never searches the fallback directories
PopplerDir_nosearch(e, poppler_path) ==
    IF poppler_path # None THEN Dirname(poppler_path) ELSE None

\* the mutant of PopplerDir that searches /usr/bin alone
PopplerDir_usr_only(e, poppler_path) ==
    LET d0 == IF poppler_path # None
              THEN IF IsDir(e, poppler_path) THEN poppler_path
                   ELSE Dirname(poppler_path)
              ELSE None
    IN  IF Truthy(d0) THEN d0
        ELSE IF Exists(e, Join(UsrBinDir, "pdftoppm")) THEN UsrBinDir
        ELSE d0

\* lines 378-391: the directory handed to the rasterization library
PopplerDir(e, poppler_path) ==
    LET d0 == IF poppler_path # None
              THEN IF IsDir(e, poppler_path) THEN poppler_path
                   ELSE Dirname(poppler_path)
              ELSE None
    IN  IF Truthy(d0) THEN d0
        ELSE IF Exists(e, Join(CloudDir, "pdftoppm")) THEN CloudDir
        ELSE IF Exists(e, Join(UsrBinDir, "pdftoppm")) THEN UsrBinDir
        ELSE d0

\* lines 393-406: the rasterization, with the explicit retry in the handler
Rasterize(e, poppler_dir, dpi, raster) ==
    LET a1 == raster[1]
        e1 == Ev("convert_from_bytes", poppler_dir,
                 IF Truthy(poppler_dir) THEN "poppler_path" ELSE "default",
                 a1.kind)
    IN  IF a1.kind = "images"
        THEN [kind |-> "ok", images |-> Images(a1.n, dpi), msg |-> "",
              log |-> <<e1>>]
        ELSE IF ~Truthy(poppler_dir) /\ Exists(e, Join(CloudDir, "pdftoppm"))
        THEN LET a2 == raster[2]
                 e2 == Ev("convert_from_bytes", CloudDir, "poppler_path", a2.kind)
             IN  IF a2.kind = "images"
                 THEN [kind |-> "ok", images |-> Images(a2.n, dpi), msg |-> "",
                       log |-> <<e1, e2>>]
                 ELSE [kind |-> "raise", images |-> <<>>, msg |-> a1.msg,
                       log |-> <<e1, e2>>]
        ELSE [kind |-> "raise", images |-> <<>>, msg |-> a1.msg, log |-> <<e1>>]

\* lines 415-422: the compression handed to the image library
Comp(compression) ==
    IF compression = "tiff_deflate" THEN "tiff_deflate"
    ELSE IF compression = "tiff_lzw" THEN "tiff_lzw"
    ELSE IF compression = "tiff_adobe_deflate" THEN "tiff_adobe_deflate"
    ELSE NoComp

\* PIL Image.save(buffer, format='TIFF', compression, save_all, append_images):
\* the frames of the file written
PilSave(first, comp, save_all, append_images) ==
    [fmt |-> "TIFF",
     frames |-> IF save_all THEN <<first>> \o append_images ELSE <<first>>,
     save_all |-> save_all,
     compression |-> comp]

\* the mutant of SaveTiff that appends the pages after the second
SaveTiff_skip(images, comp) ==
    IF Len(images) = 1 THEN PilSave(images[1], comp, FALSE, <<>>)
    ELSE PilSave(images[1], comp, TRUE, Tail(Tail(images)))

\* lines 424-434
SaveTiff(images, comp) ==
    IF Len(images) = 1 THEN PilSave(images[1], comp, FALSE, <<>>)
    ELSE PilSave(images[1], comp, TRUE, Tail(images))

\* lines 439-460: the handler of the function's try
TiffHandler(msg, log, loc, images) ==
    [raised |-> FALSE, ret |-> NoBytes,
     log |-> log \o <<Ev("st.error", None,
                         IF msg \in {"poppler", "page count"}
                         THEN "poppler_error" ELSE "convert_error", "")>>,
     loc |-> loc, images |-> images]

\* lines 350-437 once the locator has answered loc
TiffAfterLocator(e, loc, in) ==
    IF loc.raised THEN TiffHandler("other", loc.log, None, <<>>)
    ELSE
    LET nf == IF loc.ret = None THEN NotFoundBranch(e)
              ELSE [kind |-> "go", log |-> <<>>]
        log1 == loc.log \o nf.log
    IN  IF nf.kind = "stop"
        THEN [raised |-> FALSE, ret |-> NoBytes, log |-> log1,
              loc |-> loc.ret, images |-> <<>>]
        ELSE
        LET r == Rasterize(e, PopplerDir(e, loc.ret), in.dpi, in.raster)
            log2 == log1 \o r.log
        IN  IF r.kind = "raise" THEN TiffHandler(r.msg, log2, loc.ret, <<>>)
            ELSE IF r.images = <<>>
            THEN [raised |-> FALSE, ret |-> NoBytes, log |-> log2,
                  loc |-> loc.ret, images |-> r.images]
            ELSE LET log3 == log2 \o <<Ev("save", None, "TIFF", in.save)>> IN
                 IF in.save = "raise"
                 THEN TiffHandler("other", log3, loc.ret, r.images)
                 ELSE [raised |-> FALSE,
                       ret |-> SaveTiff(r.images, Comp(in.compression)),
                       log |-> log3, loc |-> loc.ret, images |-> r.images]

\* lines 342-460.  Besides the returned bytes and the events, the record
\* shows what the locator answered (loc) and the page images the
\* rasterization yielded (images).
convert_pdf_to_tiff(e, in) == TiffAfterLocator(e, check_poppler_available(e), in)

(***************************************************************************)
(* Specifications of the rasterizer.  SpecTiff varies the document over a  *)
(* small toolset; SpecTiffEnv varies the toolset over a one-page document. *)
(***************************************************************************)
InitTiff ==
    /\ ChooseEnv({{}}, MaxInstalledSmall)
    /\ session = InitSession
    /\ call = Idle

\* a call of convert_pdf_to_tiff(pdf_bytes, dpi, compression)
CallTiff ==
    /\ call.op = "idle"
    /\ \E in \in TiffInputs(DpiChoices, Compressions, 0..MaxPages, {"ok", "raise"}) :
         call' = [op |-> "convert_pdf_to_tiff", out |-> convert_pdf_to_tiff(env, in)]
    /\ UNCHANGED <<env, session>>

NextTiff == CallTiff

SpecTiff == InitTiff /\ [][NextTiff]_vars

InitTiffEnv ==
    /\ ChooseEnv({{}}, MaxInstalled)
    /\ session = InitSession
    /\ call = Idle

\* a call of convert_pdf_to_tiff on a one-page document
CallTiffEnv ==
    /\ call.op = "idle"
    /\ \E in \in TiffInputs({300}, {"tiff_deflate"}, {1}, {"ok"}) :
         call' = [op |-> "convert_pdf_to_tiff", out |-> convert_pdf_to_tiff(env, in)]
    /\ UNCHANGED <<env, session>>

NextTiffEnv == CallTiffEnv

SpecTiffEnv == InitTiffEnv /\ [][NextTiffEnv]_vars

(***************************************************************************)
(* The PowerPoint -> PDF backends.                                         *)
(***************************************************************************)
\* bytes of length 0
EmptyBytes == [fmt |-> "empty"]

\* truthiness of bytes: "if pdf_bytes:" (None and b'' are falsy)
BytesTruthy(b) == b \notin {NoBytes, EmptyBytes}

\* str.lower() on the filename suffixes the model uses
Lower(x) ==
    IF x = ".PPT" THEN ".ppt" ELSE IF x = ".PPTX" THEN ".pptx" ELSE x

\* uploaded files: name = stem + ext
Files == [stem : {"deck", "talk"}, ext : {".pptx", ".ppt", ".PPT"}]

\* the file NamedTemporaryFile(delete=False, suffix='.pptx') creates
TmpFile == <<"/tmp", "tmpXXXX.pptx">>

\* the directory TemporaryDirectory() creates
TmpDir == <<"/tmp", "tmpdir">>

\* str.strip() on the text lines the model uses
Strip(l) ==
    IF l = "  " THEN "" ELSE IF l = " b " THEN "b" ELSE l

\* .replace('&', '&amp;').replace('<', '&lt;').replace('>', '&gt;') on the
\* text lines the model uses
Escape(l) ==
    IF l = "x<y&z" THEN "x&lt;y&amp;z" ELSE l

\* the text of a shape, as its lines; a shape without a text frame has no
\* text attribute
Shapes ==
    { [has_text |-> FALSE, text |-> <<>>],
      [has_text |-> TRUE, text |-> <<"  ">>],
      [has_text |-> TRUE, text |-> <<"a">>],
      [has_text |-> TRUE, text |-> <<" b ", "", "x<y&z">>] }

\* the slides the model draws presentations from, each a list of shapes
SlideKinds ==
    {<<>>} \cup {<<sh>> : sh \in Shapes}
        \cup {<<[has_text |-> TRUE, text |-> <<"a">>],
                [has_text |-> FALSE, text |-> <<>>],
                [has_text |-> TRUE, text |-> <<" b ", "", "x<y&z">>]>>}

\* the presentations of n slides
Decks(n) == [1..n -> SlideKinds]

\* line 247: hasattr(shape, "text") and shape.text.strip()
HasContent(sh) ==
    sh.has_text /\ \E k \in 1..Len(sh.text) : Strip(sh.text[k]) # ""

Para(txt) == [t |-> "Paragraph", n |-> 0, text |-> txt]

Spacer == [t |-> "Spacer", n |-> 0, text |-> ""]

PageBreak == [t |-> "PageBreak", n |-> 0, text |-> ""]

\* Paragraph(f"Slide {i + 1}", title_style)
Title(n) == [t |-> "Title", n |-> n, text |-> "Slide"]

RECURSIVE LineParas(_, _)
\* lines 253-259: the paragraphs of one text, from line k on
LineParas(text, k) ==
    IF k > Len(text) THEN <<>>
    ELSE IF Strip(Escape(text[k])) # ""
    THEN <<Para(Strip(Escape(text[k]))), Spacer>> \o LineParas(text, k + 1)
    ELSE LineParas(text, k + 1)

RECURSIVE ShapeParas(_, _)
\* lines 245-259: the paragraphs of the shapes of one slide, from shape k on
ShapeParas(slide, k) ==
    IF k > Len(slide) THEN <<>>
    ELSE IF HasContent(slide[k])
    THEN LineParas(slide[k].text, 1) \o ShapeParas(slide, k + 1)
    ELSE ShapeParas(slide, k + 1)

\* lines 244-261: the body of one slide
SlideBody(slide) ==
    IF \E k \in 1..Len(slide) : HasContent(slide[k])
    THEN ShapeParas(slide, 1)
    ELSE <<Para("(No text content on this slide)")>>

\* the mutant of SlideStart that breaks the page before every slide
SlideStart_always(i) == <<PageBreak, Title(i + 1), Spacer>>

\* lines 237-242: what opens the section of slide number i (from 0)
SlideStart(i) ==
    (IF i > 0 THEN <<PageBreak>> ELSE <<>>) \o <<Title(i + 1), Spacer>>

RECURSIVE StoryFrom(_, _)
\* lines 236-261: for i, slide in enumerate(prs.slides), from index i on
StoryFrom(slides, i) ==
    IF i >= Len(slides) THEN <<>>
    ELSE SlideStart(i) \o SlideBody(slides[i + 1]) \o StoryFrom(slides, i + 1)

\* lines 233-261: the flow content
Story(slides) == StoryFrom(slides, 0)

\* the mutant of IsLegacyFormat that forgets .lower()
IsLegacyFormat_cased(file) == file.ext = ".ppt"

\* lines 188-189, 199: Path(name).suffix.lower() == '.ppt'
IsLegacyFormat(file) == Lower(file.ext) = ".ppt"

\* lines 272-276: the handler of convert_pptx_to_pdf_text
TextHandler(msg, log, tmp, story) ==
    [raised |-> FALSE, ret |-> NoBytes,
     log |-> log \o <<Ev("st.error", None, msg, ""),
                      Ev("st.error", None, "traceback", "")>>,
     tmp |-> tmp, story |-> story]

\* lines 181-276.  x.parse is what Presentation(tmp_path) answers (slides or
\* an exception), x.build what doc.build(story) does.  tmp is the set of
\* temporary files and directories the call leaves on disk.
convert_pptx_to_pdf_text(file, x) ==
    LET warn == IF IsLegacyFormat(file)
                THEN <<Ev("st.warning", None, "ppt_note", "")>> ELSE <<>>
        log1 == warn \o <<Ev("NamedTemporaryFile", TmpFile, "delete=False", "")>>
    IN  IF IsLegacyFormat(file)
        THEN TextHandler("unsupported_format", log1, {TmpFile}, <<>>)
        ELSE
        LET log2 == log1 \o <<Ev("Presentation", TmpFile, "", x.parse.kind)>> IN
        IF x.parse.kind = "raise"
        THEN TextHandler("parse_error", log2, {TmpFile}, <<>>)
        ELSE
        LET story == Story(x.parse.slides)
            log3 == log2 \o <<Ev("doc.build", None, "", x.build)>>
        IN  IF x.build = "raise"
            THEN TextHandler("build_error", log3, {TmpFile}, story)
            ELSE [raised |-> FALSE,
                  ret |-> [fmt |-> "pdf", via |-> "text", stem |-> file.stem],
                  log |-> log3 \o <<Ev("os.unlink", TmpFile, "", "")>>,
                  tmp |-> {}, story |-> story]

\* the mutant of LibreOfficeHandler that reports every failure alike
LibreOfficeHandler_generic(msg, log) ==
    [raised |-> FALSE, ret |-> NoBytes,
     log |-> log \o <<Ev("st.error", None, "conversion_failed", "")>>,
     tmp |-> {}, story |-> <<>>]

\* lines 133-135: the handler of convert_pptx_to_pdf_libreoffice
LibreOfficeHandler(msg, log) ==
    [raised |-> FALSE, ret |-> NoBytes,
     log |-> log \o <<Ev("st.error", None, msg, "")>>,
     tmp |-> {}, story |-> <<>>]

\* lines 86-135.  x.which_libreoffice and x.which_soffice are the PATH
\* lookups of the two binary names (a path or None), x.run how the
\* subprocess ends: "timeout", "nonzero", or exit code 0 with the expected
\* file written ("ok_output"), written empty ("ok_empty") or missing
\* ("ok_no_output").  The with-block removes the directory on every exit.
convert_pptx_to_pdf_libreoffice(file, x) ==
    LET libreoffice_path ==
            IF x.which_libreoffice # None THEN x.which_libreoffice
            ELSE x.which_soffice
    IN  IF libreoffice_path = None
        THEN LibreOfficeHandler("libreoffice_not_installed", <<>>)
        ELSE
        LET log1 == <<Ev("TemporaryDirectory", TmpDir, "create", ""),
                      Ev("run", libreoffice_path, "--headless", x.run)>>
            log2 == log1 \o <<Ev("TemporaryDirectory", TmpDir, "cleanup", "")>>
        IN  IF x.run = "timeout" THEN LibreOfficeHandler("timeout", log2)
            ELSE IF x.run = "nonzero"
            THEN LibreOfficeHandler("conversion_failed", log2)
            ELSE IF x.run = "ok_no_output"
            THEN LibreOfficeHandler("pdf_not_generated", log2)
            ELSE [raised |-> FALSE,
                  ret |-> IF x.run = "ok_empty" THEN EmptyBytes
                          ELSE [fmt |-> "pdf", via |-> "libreoffice",
                                stem |-> file.stem],
                  log |-> log2, tmp |-> {}, story |-> <<>>]

\* the mutant of HasCredential that only tests for None
HasCredential_notNone(api_key) == api_key # NoneStr

\* line 142: the test "if not api_key", negated
HasCredential(api_key) == StrTruthy(api_key)

\* lines 137-167.  x.http is what requests.post does: "raise", "non200",
\* status 200 with content ("ok_content") or without ("ok_empty"); the
\* event of the request carries its Authorization header.  The
\* import of requests at line 140 succeeds wherever streamlit, which
\* requires it, was imported at line 1.
convert_pptx_to_pdf_api(file, api_key, x) ==
    IF ~HasCredential(api_key)
    THEN LET lo == convert_pptx_to_pdf_libreoffice(file, x) IN
         [lo EXCEPT !.log = <<Ev("st.warning", None, "api_key_missing", "")>> \o @]
    ELSE
    LET log1 == <<Ev("requests.post", <<"Bearer", api_key>>, "cloudconvert", x.http)>> IN
    IF x.http \in {"raise", "non200"}
    THEN [raised |-> FALSE, ret |-> NoBytes,
          log |-> log1 \o <<Ev("st.error", None,
                               IF x.http = "raise" THEN "api_exception"
                               ELSE "api_failed", "")>>,
          tmp |-> {}, story |-> <<>>]
    ELSE [raised |-> FALSE,
          ret |-> IF x.http = "ok_empty" THEN EmptyBytes
                  ELSE [fmt |-> "pdf", via |-> "api", stem |-> file.stem],
          log |-> log1, tmp |-> {}, story |-> <<>>]

\* st.session_state.get('api_key', None)
SessionApiKey(sess) ==
    IF "api_key" \in DOMAIN sess THEN sess.api_key ELSE NoneStr

\* line 173: st.session_state.get('api_key', None) or os.getenv('CONVERSION_API_KEY')
EffectiveApiKey(sess, env_key) ==
    IF StrTruthy(SessionApiKey(sess)) THEN SessionApiKey(sess) ELSE env_key

\* lines 169-179.  x.env_key is the CONVERSION_API_KEY environment variable.
convert_pptx_to_pdf(sess, file, method, x) ==
    IF method = "api"
    THEN convert_pptx_to_pdf_api(file, EffectiveApiKey(sess, x.env_key), x)
    ELSE IF method = "libreoffice"
    THEN convert_pptx_to_pdf_libreoffice(file, x)
    ELSE convert_pptx_to_pdf_text(file, x)

(***************************************************************************)
(* Specification of the presentation backends: any session, any file, any  *)
(* method, any answer of the collaborators.                                *)
(***************************************************************************)
LibreOffice == <<"/usr/bin", "libreoffice">>

Soffice == <<"/usr/bin", "soffice">>

RunOutcomes == {"timeout", "nonzero", "ok_output", "ok_empty", "ok_no_output"}

HttpOutcomes == {"raise", "non200", "ok_content", "ok_empty"}

\* what Presentation(tmp_path) can answer: a deck of up to n slides, or an
\* exception
ParseAnswers(n) ==
    {[kind |-> "raise", slides |-> <<>>]}
        \cup {[kind |-> "ok", slides |-> d] : d \in UNION {Decks(k) : k \in 0..n}}

\* stand-ins for the answers a backend does not ask for
Unused ==
    [parse |-> [kind |-> "raise", slides |-> <<>>], build |-> "ok",
     which_libreoffice |-> None, which_soffice |-> None, run |-> "timeout",
     http |-> "raise", env_key |-> NoneStr]

\* the answers the text backend can get
TextAnswers(n) ==
    {[Unused EXCEPT !.parse = p, !.build = b] :
        p \in ParseAnswers(n), b \in {"ok", "raise"}}

\* the answers the LibreOffice backend can get
LibreOfficeAnswers ==
    {[Unused EXCEPT !.which_libreoffice = wl, !.which_soffice = ws, !.run = r] :
        wl \in {None, LibreOffice}, ws \in {None, Soffice}, r \in RunOutcomes}

\* the answers the API backend can get, with its fallback
ApiAnswers ==
    {[l EXCEPT !.http = h, !.env_key = k] :
        l \in LibreOfficeAnswers, h \in HttpOutcomes, k \in {NoneStr, "", "envkey"}}

\* the sessions a backend can be called in (line 549 stores truthy keys only)
BackendSessions ==
    {InitSession,
     [last_dpi |-> 300, last_compression |-> "tiff_deflate", api_key |-> "userkey"]}

\* a host without any toolset file, POPPLER_PATH unset
BareEnv ==
    [inst |-> Installation({}, <<>>), popplerPath |-> None, whichPpm |-> None,
     whichCairo |-> None, lookupFails |-> {}]

InitPptx ==
    /\ env = BareEnv
    /\ session \in BackendSessions
    /\ call = Idle

\* a call of convert_pptx_to_pdf(uploaded_file, method)
CallPptx(file, method, x) ==
    /\ call' = [op |-> "convert_pptx_to_pdf",
                in |-> [file |-> file, method |-> method, x |-> x],
                out |-> convert_pptx_to_pdf(session, file, method, x)]
    /\ UNCHANGED <<env, session>>

CallPptxText ==
    /\ call.op = "idle"
    /\ \E file \in Files, x \in TextAnswers(MaxSlides) : CallPptx(file, "text", x)

CallPptxLibreOffice ==
    /\ call.op = "idle"
    /\ \E file \in Files, x \in LibreOfficeAnswers : CallPptx(file, "libreoffice", x)

CallPptxApi ==
    /\ call.op = "idle"
    /\ \E file \in Files, x \in ApiAnswers : CallPptx(file, "api", x)

NextPptx == CallPptxText \/ CallPptxLibreOffice \/ CallPptxApi

SpecPptx == InitPptx /\ [][NextPptx]_vars

(***************************************************************************)
(* Previews.                                                               *)
(***************************************************************************)
\* a local variable: Body of the value v, which is computed once
With(v, Body(_)) == CHOOSE r \in {Body(x) : x \in {v}} : TRUE

\* Python's None where an image is expected
NoImage == [page |-> 0, dpi |-> 0]

\* the mutant of get_pdf_preview that reports a failed rasterization
get_pdf_preview_reporting(e, pv) ==
    IF pv[Len(pv)].kind = "images" /\ pv[Len(pv)].n >= 1
    THEN [raised |-> FALSE, ret |-> Images(pv[Len(pv)].n, 150)[1],
          log |-> <<Ev("convert_from_bytes", None, "default", "images")>>]
    ELSE [raised |-> FALSE, ret |-> NoImage,
          log |-> <<Ev("convert_from_bytes", None, "default", "raise"),
                    Ev("st.error", None, "preview_failed", "")>>]

\* lines 462-491.  pv holds the answers of the rasterization library to the
\* one or two calls the preview makes.
get_pdf_preview(e, pv) ==
    With(check_poppler_available(e), LAMBDA loc :
    IF loc.raised THEN [raised |-> FALSE, ret |-> NoImage, log |-> loc.log]
    ELSE
    LET poppler_dir ==
            IF loc.ret # None
            THEN IF IsDir(e, loc.ret) THEN loc.ret ELSE Dirname(loc.ret)
            ELSE None
        a1 == pv[1]
        e1 == Ev("convert_from_bytes", poppler_dir,
                 IF Truthy(poppler_dir) THEN "poppler_path" ELSE "default",
                 a1.kind)
    IN  IF a1.kind = "images"
        THEN [raised |-> FALSE,
              ret |-> IF a1.n >= 1 THEN Images(a1.n, 150)[1] ELSE NoImage,
              log |-> loc.log \o <<e1>>]
        ELSE
        LET a2 == pv[2]
            e2 == Ev("convert_from_bytes", None, "default", a2.kind)
        IN  [raised |-> FALSE,
             ret |-> IF a2.kind = "images" /\ a2.n >= 1
                     THEN Images(a2.n, 150)[1] ELSE NoImage,
             log |-> loc.log \o <<e1, e2>>])

\* lines 493-500.  open is what Image.open does with the bytes.
get_tiff_preview(tiff_bytes, open) ==
    IF open = "ok"
    THEN [raised |-> FALSE, ret |-> tiff_bytes.frames[1], log |-> <<>>]
    ELSE [raised |-> FALSE, ret |-> NoImage,
          log |-> <<Ev("st.warning", None, "tiff_preview_failed", "")>>]

(***************************************************************************)
(* The page script: one run per user interaction, over st.session_state.   *)
(***************************************************************************)
\* the keys st.session_state can hold
SessionKeys ==
    {"last_dpi", "last_compression", "api_key", "pdf_output", "pdf_filename",
     "tiff_output", "tiff_filename"}

\* st.session_state[k] = v
SessionWith(sess, k, v) ==
    [j \in DOMAIN sess \cup {k} |-> IF j = k THEN v ELSE sess[j]]

\* no file in the uploader
NoFile == [stem |-> "", ext |-> ""]

\* no download button was rendered
NoOffer == [data |-> NoBytes, file_name |-> <<>>]

\* Path(name).stem + suffix
StemPlus(file, suffix) == <<file.stem, suffix>>

\* lines 558-563: the method parameter for the selected method name
MethodParam(method) ==
    IF method = "LibreOffice (API)" THEN "libreoffice"
    ELSE IF method = "External API" THEN "api"
    ELSE "text"

\* the mutant of StorePdf that stores whatever the conversion returned
StorePdf_always(sess, file, pdf_bytes) ==
    SessionWith(SessionWith(sess, "pdf_output", pdf_bytes),
                "pdf_filename", StemPlus(file, ".pdf"))

\* lines 567-569: a truthy result is stored with its filename
StorePdf(sess, file, pdf_bytes) ==
    IF BytesTruthy(pdf_bytes)
    THEN SessionWith(SessionWith(sess, "pdf_output", pdf_bytes),
                     "pdf_filename", StemPlus(file, ".pdf"))
    ELSE sess

\* lines 573-589: the download button and the preview
PdfDownloadAndPreview(sess, e, pv) ==
    IF "pdf_output" \notin DOMAIN sess
    THEN [offered |-> NoOffer, preview |-> NoImage, log |-> <<>>]
    ELSE With(get_pdf_preview(e, pv), LAMBDA p :
         [offered |-> [data |-> sess.pdf_output, file_name |-> sess.pdf_filename],
          preview |-> p.ret,
          log |-> <<Ev("st.download_button", None, "Download PDF", "")>>
                    \o p.log
                    \o <<IF p.ret # NoImage
                         THEN Ev("st.image", None, "First page preview", "")
                         ELSE Ev("st.info", None, "preview_not_available", "")>>])

\* lines 511-589: one run of the script with the PowerPoint page selected.
\* u is what the user did: the uploaded file, the method, the content of
\* the API key field, whether Convert was pressed; and what the
\* collaborators answer (u.x, u.pv).  The result is the session after the
\* run and what the run showed.
PptxPage(sess, e, u) ==
    IF ~e.PPTX_AVAILABLE
    THEN [session |-> sess, conv |-> NoBytes, converted |-> FALSE,
          offered |-> NoOffer, preview |-> NoImage,
          log |-> <<Ev("st.error", None, "libraries_not_installed", "")>>]
    ELSE IF u.file = NoFile
    THEN [session |-> sess, conv |-> NoBytes, converted |-> FALSE,
          offered |-> NoOffer, preview |-> NoImage, log |-> <<>>]
    ELSE
    With(IF u.method = "External API" /\ StrTruthy(u.field)
         THEN SessionWith(sess, "api_key", u.field) ELSE sess, LAMBDA sess1 :
    With(IF u.pressed
         THEN convert_pptx_to_pdf(sess1, u.file, MethodParam(u.method),
                                  [u.x EXCEPT !.env_key = e.CONVERSION_API_KEY])
         ELSE [ret |-> NoBytes, log |-> <<>>], LAMBDA c :
    With(IF u.pressed THEN StorePdf(sess1, u.file, c.ret) ELSE sess1, LAMBDA sess2 :
    With(PdfDownloadAndPreview(sess2, e, u.pv), LAMBDA d :
        [session |-> sess2,
         conv |-> c.ret,
         converted |-> u.pressed,
         offered |-> d.offered, preview |-> d.preview,
         log |-> <<Ev("st.info", None, "file_info", "")>>
                   \o c.log
                   \o (IF BytesTruthy(c.ret)
                       THEN <<Ev("st.success", None, "conversion_successful", "")>>
                       ELSE <<>>)
                   \o d.log]))))

\* lines 649, 661: the options of the two select boxes
DpiOptions == <<150, 300, 600, 700, 800, 900, 1000, 1100, 1200>>

CompressionOptions == <<"tiff_deflate", "tiff_lzw", "tiff_adobe_deflate", "None">>

\* the option a select box returns: the one at the position the user
\* chose, or with no choice made (position 0) the one at the default index
\* (lines 653, 662), which is the last value if it is an option and else
\* the one at position fallback
Selected(choice, options, last, fallback) ==
    IF choice # 0 THEN options[choice]
    ELSE IF \E i \in 1..Len(options) : options[i] = last THEN last
    ELSE options[fallback]

\* lines 677-679: a truthy result is stored with its filename
StoreTiff(sess, file, tiff_bytes) ==
    IF BytesTruthy(tiff_bytes)
    THEN SessionWith(SessionWith(sess, "tiff_output", tiff_bytes),
                     "tiff_filename", StemPlus(file, ".tiff"))
    ELSE sess

\* lines 683-701: the download button and the preview
TiffDownloadAndPreview(sess, open) ==
    IF "tiff_output" \notin DOMAIN sess
    THEN [offered |-> NoOffer, preview |-> NoImage, log |-> <<>>]
    ELSE With(get_tiff_preview(sess.tiff_output, open), LAMBDA p :
         [offered |-> [data |-> sess.tiff_output, file_name |-> sess.tiff_filename],
          preview |-> p.ret,
          log |-> <<Ev("st.info", None, "output_size", ""),
                    Ev("st.download_button", None, "Download TIFF", "")>>
                    \o p.log
                    \o <<IF p.ret # NoImage
                         THEN Ev("st.image", None, "First page preview", "")
                         ELSE Ev("st.info", None, "preview_not_available", "")>>])

\* lines 591-701: one run of the script with the PDF to TIFF page selected
TiffPage(sess, e, u) ==
    IF ~e.PDF2IMAGE_AVAILABLE
    THEN [session |-> sess, conv |-> NoBytes, converted |-> FALSE,
          offered |-> NoOffer, preview |-> NoImage,
          log |-> <<Ev("st.error", None, "libraries_not_installed", "")>>]
    ELSE
    With(check_poppler_available(e), LAMBDA status :
    With(status.log
           \o <<IF status.ret # None
                THEN Ev("st.success", None, "poppler_available", "")
                ELSE Ev("st.info", None, "poppler_detection", "")>>, LAMBDA log0 :
    IF u.file = NoFile
    THEN [session |-> sess, conv |-> NoBytes, converted |-> FALSE,
          offered |-> NoOffer, preview |-> NoImage, log |-> log0]
    ELSE
    With(Selected(u.dpi, DpiOptions, sess.last_dpi, 2), LAMBDA dpi :
    With(Selected(u.compression, CompressionOptions, sess.last_compression, 1),
         LAMBDA compression :
    With([sess EXCEPT !.last_dpi = dpi, !.last_compression = compression],
         LAMBDA sess1 :
    With(IF u.pressed
         THEN convert_pdf_to_tiff(e,
                 [dpi |-> dpi,
                  compression |-> IF compression # "None" THEN compression
                                  ELSE NoComp,
                  raster |-> u.raster, save |-> u.save])
         ELSE [ret |-> NoBytes, log |-> <<>>], LAMBDA c :
    With(IF u.pressed THEN StoreTiff(sess1, u.file, c.ret) ELSE sess1, LAMBDA sess2 :
    With(TiffDownloadAndPreview(sess2, u.open), LAMBDA d :
        [session |-> sess2,
         conv |-> c.ret,
         converted |-> u.pressed,
         offered |-> d.offered, preview |-> d.preview,
         log |-> log0
                   \o c.log
                   \o (IF BytesTruthy(c.ret)
                       THEN <<Ev("st.success", None, "conversion_successful", "")>>
                       ELSE <<>>)
                   \o d.log]))))))))

(***************************************************************************)
(* Specification of the application: a user session is a sequence of runs  *)
(* of the page script over one st.session_state.                           *)
(***************************************************************************)
\* a host with pdftoppm installed in /usr/bin and on PATH
ToolsetEnv ==
    [BareEnv EXCEPT
        !.inst = Installation({Join(UsrBinDir, "pdftoppm")},
                              [p \in {Join(UsrBinDir, "pdftoppm")} |-> "ok"]),
        !.whichPpm = Join(UsrBinDir, "pdftoppm")]

\* the host e with the import flags of lines 11-23 and CONVERSION_API_KEY
HostEnv(e, pptx, pdf2image, key) ==
    [inst |-> e.inst, popplerPath |-> e.popplerPath, whichPpm |-> e.whichPpm,
     whichCairo |-> e.whichCairo, lookupFails |-> e.lookupFails,
     PPTX_AVAILABLE |-> pptx, PDF2IMAGE_AVAILABLE |-> pdf2image,
     CONVERSION_API_KEY |-> key]

\* the files the user uploads on the PowerPoint page
PptxUploads == {[stem |-> st, ext |-> ".pptx"] : st \in {"deck", "talk"}}

\* what the collaborators of the presentation backends answer a page run
PageAnswers(method) ==
    IF method = "Text Extraction"
    THEN {[Unused EXCEPT !.parse = p] : p \in ParseAnswers(0)}
    ELSE LET lo == {[Unused EXCEPT !.which_libreoffice = wl, !.run = r] :
                       wl \in {None, LibreOffice}, r \in {"ok_output", "nonzero"}}
         IN  IF method = "LibreOffice (API)" THEN lo
             ELSE {[l EXCEPT !.http = h] :
                     l \in lo, h \in {"ok_content", "ok_empty", "non200"}}

\* what the rasterization library answers a page run: the oracles whose
\* errors do not mention the toolset
PageOracles(pageCounts) ==
    {r \in RasterOracles(pageCounts) :
        \A k \in 1..Len(r) : r[k].msg \in {"", "other"}}

\* what the user does on the PowerPoint page: the API key field exists
\* only with the External API method (line 540), and the backends are
\* asked only when Convert is pressed (line 554)
PptxInteractions ==
    {[file |-> NoFile, method |-> "Text Extraction", field |-> "",
      pressed |-> FALSE, x |-> Unused]}
    \cup
    UNION {
      {[file |-> file, method |-> method, field |-> field, pressed |-> FALSE,
        x |-> Unused],
       [file |-> file, method |-> method, field |-> field, pressed |-> TRUE,
        x |-> x]} :
        <<file, method, field, x>> \in
            UNION {PptxUploads \X {method} \X
                   (IF method = "External API" THEN {"", "userkey", "otherkey"}
                    ELSE {""}) \X PageAnswers(method) :
                   method \in {"Text Extraction", "LibreOffice (API)", "External API"}}}

\* what the user does on the PDF to TIFF page
TiffInteractions ==
    {[file |-> NoFile, dpi |-> 0, compression |-> 0,
      pressed |-> FALSE, raster |-> <<>>, save |-> "ok"]}
    \cup
    UNION {
      {[file |-> [stem |-> "paper", ext |-> ".pdf"], dpi |-> dpi,
        compression |-> compression, pressed |-> FALSE, raster |-> <<>>,
        save |-> "ok"]}
      \cup
      {[file |-> [stem |-> "paper", ext |-> ".pdf"], dpi |-> dpi,
        compression |-> compression, pressed |-> TRUE, raster |-> r,
        save |-> sv] : r \in PageOracles({0, 2}), sv \in {"ok", "raise"}} :
        <<dpi, compression>> \in
            {0, 1, 2} \X {0, 1, 4}}

InitApp ==
    /\ \E e \in {BareEnv, ToolsetEnv}, pptx \in BOOLEAN, pdf2image \in BOOLEAN,
          key \in {NoneStr, "envkey"} :
         env = HostEnv(e, pptx, pdf2image, key)
    /\ session = InitSession
    /\ call = Idle

\* a run of the script on the PowerPoint page
RerunPptxPage ==
    /\ call.op = "idle"
    /\ \E w \in PptxInteractions, pv \in PageOracles({0, 1}) :
         \E r \in {PptxPage(session, env,
                       [file |-> w.file, method |-> w.method, field |-> w.field,
                        pressed |-> w.pressed, x |-> w.x, pv |-> pv])} :
             /\ session' = r.session
             /\ call' = [op |-> "rerun", page |-> "PowerPoint to PDF",
                         file |-> w.file, method |-> w.method,
                         field |-> w.field, out |-> r]
    /\ UNCHANGED env

\* a run of the script on the PDF to TIFF page
RerunTiffPage ==
    /\ call.op = "idle"
    /\ \E w \in TiffInteractions, open \in {"ok", "raise"} :
         \E r \in {TiffPage(session, env,
                       [file |-> w.file, dpi |-> w.dpi,
                        compression |-> w.compression, pressed |-> w.pressed,
                        raster |-> w.raster, save |-> w.save, open |-> open])} :
             /\ session' = r.session
             /\ call' = [op |-> "rerun", page |-> "PDF to TIFF",
                         file |-> w.file, method |-> "", field |-> "",
                         out |-> r]
    /\ UNCHANGED env

\* the run is over: what it showed stays on screen, its locals are gone,
\* and the page waits for the next interaction
EndRequest ==
    /\ call.op = "rerun"
    /\ call' = Idle
    /\ UNCHANGED <<env, session>>

Next == RerunPptxPage \/ RerunTiffPage \/ EndRequest

Spec == InitApp /\ [][Next]_vars

(***************************************************************************)
(* Properties of the locator.                                              *)
(***************************************************************************)
\* the candidates in the order the locator is meant to try them: the
\* POPPLER_PATH override, PATH-resolved pdftoppm, PATH-resolved pdftocairo,
\* the hard-coded locations
CandidateOrder(e) ==
    << IF Truthy(e.popplerPath) THEN Join(e.popplerPath, "pdftoppm") ELSE None,
       e.whichPpm, e.whichCairo >> \o HardCodedPaths

RECURSIVE LastSlot(_, _, _)
\* the slot of cands at which the probes of log end when they are read as
\* probes of the candidates in order (several probes may hit one slot);
\* 0 when log is not in candidate order.  i is the slot reached so far.
LastSlot(log, cands, i) ==
    IF log = <<>> THEN i
    ELSE IF i > Len(cands) THEN 0
    ELSE IF i >= 1 /\ log[1].p = cands[i] THEN LastSlot(Tail(log), cands, i)
    ELSE IF i + 1 <= Len(cands) /\ log[1].p = cands[i + 1]
         THEN LastSlot(Tail(log), cands, i + 1)
    ELSE IF i + 1 <= Len(cands) THEN LastSlot(log, cands, i + 1)
    ELSE 0

\* a version query on c ran and reported a version or exit code 0
VerifiedIn(log, c) == \E k \in 1..Len(log) : log[k].p = c /\ log[k].r = "ok"

\* c was probed, no version query on it could be executed, and it was
\* resolved through PATH
AcceptedIn(e, log, c) ==
    /\ c \in {e.whichPpm, e.whichCairo}
    /\ \E k \in 1..Len(log) : log[k].p = c
    /\ \A k \in 1..Len(log) : log[k].p = c => log[k].r = "raise"

\* C7: check_poppler_available probes the candidates in the fixed order
\* (override, PATH pdftoppm, PATH pdftocairo, hard-coded list) and returns
\* the first existing one that is verified (a version query ran and
\* reported) or accepted (no query could run and it is PATH-resolved);
\* nothing is probed after the returned candidate; not-found is returned
\* only when no existing candidate is verified or accepted.
C7_FirstVerifiedOrAccepted ==
    call.op = "check_poppler_available" =>
        LET log == call.out.log
            ret == call.out.ret
            cands == CandidateOrder(env)
            last == LastSlot(log, cands, 0)
            upto == IF ret = None THEN Len(cands) ELSE last - 1
        IN  /\ log # <<>> => last >= 1
            /\ \A k \in 1..Len(log) : log[k].e = "run"
            /\ ret # None =>
                 /\ log # <<>> /\ log[Len(log)].p = ret
                 /\ Exists(env, ret)
                 /\ VerifiedIn(log, ret) \/ AcceptedIn(env, log, ret)
            /\ \A k \in 1..Len(log) : log[k].r = "ok" => k = Len(log) /\ ret # None
            /\ \A i \in 1..upto :
                 (cands[i] # None /\ cands[i] # ret /\ Exists(env, cands[i])) =>
                     /\ \E k \in 1..Len(log) : log[k].p = cands[i]
                     /\ ~VerifiedIn(log, cands[i])
                     /\ ~AcceptedIn(env, log, cands[i])

\* C7 witness: an earlier candidate was probed and passed over, and a later
\* one was accepted without verification because it is PATH-resolved
C7_Witness ==
    /\ call.op = "check_poppler_available"
    /\ call.out.ret # None
    /\ Len(call.out.log) >= 3
    /\ call.out.log[1].p # call.out.ret
    /\ call.out.log[Len(call.out.log)].r = "raise"

\* C8: check_poppler_available never raises: whatever the environment
\* variable, the files, the probe outcomes and the PATH lookup do, the call
\* completes and returns a path or not-found.
C8_NeverRaises ==
    call.op = "check_poppler_available" =>
        /\ ~call.out.raised
        /\ call.out.ret \in Paths \cup {None}

\* C8 witness: the PATH lookup itself failed after a probe had raised, and
\* the call still returned a path
C8_Witness ==
    /\ call.op = "check_poppler_available"
    /\ env.lookupFails # {}
    /\ \E k \in 1..Len(call.out.log) : call.out.log[k].r = "raise"
    /\ call.out.ret # None
    /\ ~call.out.raised

(***************************************************************************)
(* Properties of the rasterizer.                                           *)
(***************************************************************************)
\* the calls of the rasterization library in a log, in order
RasterCalls(log) == SelectSeq(log, LAMBDA x : x.e = "convert_from_bytes")

\* the subprocess launches in a log
Launches(log) == SelectSeq(log, LAMBDA x : x.e = "run")

\* one of the two files that mark a Streamlit Cloud host exists
CloudMarker(e) ==
    Exists(e, Join(CloudDir, "pdftoppm")) \/ Exists(e, Join(CloudDir, "pdftocairo"))

\* C6: when the rasterization yields P >= 1 page images, the TIFF that
\* convert_pdf_to_tiff returns holds exactly those P images as frames in
\* page order; one image is saved without save_all, several with the
\* first saved and the others appended in order; bytes are returned
\* whenever the save succeeds and never hold a strict subset of the pages.
C6_AllPagesInOrder ==
    (call.op = "convert_pdf_to_tiff" /\ Len(call.out.images) >= 1) =>
        LET im == call.out.images
            t == call.out.ret
            log == call.out.log
            saved == \E k \in 1..Len(log) : log[k].e = "save" /\ log[k].r = "ok"
        IN  /\ \A i \in 1..Len(im) : im[i].page = i
            /\ saved <=> t # NoBytes
            /\ t # NoBytes =>
                 /\ t.fmt = "TIFF"
                 /\ t.frames = im
                 /\ t.save_all <=> Len(im) > 1

\* C6 witness: a document of three or more pages came out as one TIFF
C6_Witness ==
    /\ call.op = "convert_pdf_to_tiff"
    /\ Len(call.out.images) >= 3
    /\ call.out.ret # NoBytes
    /\ Len(call.out.ret.frames) >= 3

\* C9 as stated: whenever the locator finds no backend path, the
\* rasterizer is still invoked, with the default (PATH-based) resolution.
C9_Original ==
    (call.op = "convert_pdf_to_tiff" /\ call.out.loc = None) =>
        LET calls == RasterCalls(call.out.log) IN
        calls # <<>> /\ calls[1].a = "default"

\* C9 amended: when the locator finds no backend path, the rasterizer is
\* invoked only if /app/.apt/usr/bin/pdftoppm or /app/.apt/usr/bin/pdftocairo
\* exists; it is then given /app/.apt/usr/bin if pdftoppm exists there, else
\* /usr/bin if /usr/bin/pdftoppm exists, and only otherwise the default
\* (PATH-based) resolution.  When neither file exists the call returns the
\* backend-unavailable failure without invoking the rasterizer.
C9_Amended ==
    (call.op = "convert_pdf_to_tiff" /\ call.out.loc = None) =>
        LET log == call.out.log
            calls == RasterCalls(log)
            dir == IF Exists(env, Join(CloudDir, "pdftoppm")) THEN CloudDir
                   ELSE IF Exists(env, Join(UsrBinDir, "pdftoppm")) THEN UsrBinDir
                   ELSE None
        IN  IF CloudMarker(env)
            THEN /\ calls # <<>>
                 /\ calls[1].p = dir
                 /\ calls[1].a = "default" <=> dir = None
            ELSE /\ calls = <<>>
                 /\ call.out.ret = NoBytes
                 /\ log[Len(log)] = Ev("st.error", None, "poppler_not_installed", "")

\* C9 witness: nothing located, the cloud marker exists, and the
\* rasterizer was given /usr/bin
C9_Witness ==
    /\ call.op = "convert_pdf_to_tiff"
    /\ call.out.loc = None
    /\ RasterCalls(call.out.log) # <<>>
    /\ RasterCalls(call.out.log)[1].p = UsrBinDir

\* no toolset binary at any candidate location, POPPLER_PATH unset
NoCandidate(e) ==
    /\ e.popplerPath = None
    /\ e.whichPpm = None
    /\ e.whichCairo = None
    /\ \A i \in 1..Len(HardCodedPaths) : ~Exists(e, HardCodedPaths[i])

\* C10: with no toolset binary at any candidate location, POPPLER_PATH unset
\* and no /app/.apt/usr/bin/pdftoppm or pdftocairo, convert_pdf_to_tiff
\* returns the backend-unavailable failure with the installation text and
\* launches no subprocess and never calls the rasterization library.
C10_UnavailableWithoutLaunch ==
    (call.op = "convert_pdf_to_tiff" /\ NoCandidate(env) /\ ~CloudMarker(env)) =>
        /\ call.out.ret = NoBytes
        /\ ~call.out.raised
        /\ call.out.log = <<Ev("st.error", None, "poppler_not_installed", "")>>
        /\ Launches(call.out.log) = <<>>
        /\ RasterCalls(call.out.log) = <<>>

\* C10 witness: such a call, on a host where a toolset sits in a directory
\* that is no candidate
C10_Witness ==
    /\ call.op = "convert_pdf_to_tiff"
    /\ NoCandidate(env)
    /\ ~CloudMarker(env)
    /\ Exists(env, Join(CustomDir, "pdftoppm"))
    /\ call.out.ret = NoBytes

(***************************************************************************)
(* Properties of the presentation backends.                                *)
(***************************************************************************)
\* some event e occurs in log
Occurs(log, e) == \E k \in 1..Len(log) : log[k].e = e

\* the message msg was shown with st.error
ErrorShown(log, msg) ==
    \E k \in 1..Len(log) : log[k].e = "st.error" /\ log[k].a = msg

\* an external call was made: the presentation parser, a subprocess, HTTP
ExternalCall(log) ==
    Occurs(log, "Presentation") \/ Occurs(log, "run") \/ Occurs(log, "requests.post")

\* the filename extension is the legacy .ppt, in any letter case
LegacyInput == call.in.file.ext \in {".ppt", ".PPT"}

\* a credential is present: a stored session api_key or CONVERSION_API_KEY
CredentialPresent ==
    StrTruthy(SessionApiKey(session)) \/ StrTruthy(call.in.x.env_key)

\* a LibreOffice binary is on PATH under one of its two names
BinaryFound ==
    call.in.x.which_libreoffice # None \/ call.in.x.which_soffice # None

\* C1 as stated: on every exit path of a conversion attempt, every
\* temporary file or directory the attempt created is gone once the call
\* has returned.
C1_Original ==
    call.op = "convert_pptx_to_pdf" => call.out.tmp = {}

\* C2 as stated: for a .ppt input each of the three backends returns the
\* unsupported-format failure before any external call.
C2_Original ==
    (call.op = "convert_pptx_to_pdf" /\ LegacyInput) =>
        /\ call.out.ret = NoBytes
        /\ ErrorShown(call.out.log, "unsupported_format")
        /\ ~ExternalCall(call.out.log)

\* C2 amended: for a .ppt input the text-extraction backend returns the
\* unsupported-format failure before any external call; the LibreOffice
\* and remote-API backends do not look at the extension: they never report
\* the unsupported-format failure, LibreOffice launches its subprocess
\* whenever the binary is found, and the API backend sends its request
\* whenever a credential is present (and falls back to LibreOffice otherwise).
C2_Amended ==
    (call.op = "convert_pptx_to_pdf" /\ LegacyInput) =>
        LET log == call.out.log IN
        /\ call.in.method = "text" =>
             /\ call.out.ret = NoBytes
             /\ ErrorShown(log, "unsupported_format")
             /\ ~ExternalCall(log)
        /\ call.in.method = "libreoffice" =>
             /\ ~ErrorShown(log, "unsupported_format")
             /\ Occurs(log, "run") <=> BinaryFound
        /\ call.in.method = "api" =>
             /\ ~ErrorShown(log, "unsupported_format")
             /\ Occurs(log, "requests.post") <=> CredentialPresent
             /\ Occurs(log, "run") <=> (~CredentialPresent /\ BinaryFound)

\* C2 witness: the text backend turned down a file named *.PPT
C2_Witness ==
    /\ call.op = "convert_pptx_to_pdf"
    /\ call.in.method = "text"
    /\ call.in.file.ext = ".PPT"
    /\ ErrorShown(call.out.log, "unsupported_format")

\* C3: with the remote-API method and no credential (no stored api_key, no
\* CONVERSION_API_KEY), no HTTP request is sent, the substitution notice is
\* the first thing emitted, what follows is exactly the run of the
\* LibreOffice backend, and the result is that backend's result.
C3_FallbackToLibreOffice ==
    (call.op = "convert_pptx_to_pdf" /\ call.in.method = "api"
        /\ ~CredentialPresent) =>
        LET log == call.out.log
            lo == convert_pptx_to_pdf_libreoffice(call.in.file, call.in.x)
        IN  /\ ~Occurs(log, "requests.post")
            /\ log # <<>>
            /\ log[1] = Ev("st.warning", None, "api_key_missing", "")
            /\ Tail(log) = lo.log
            /\ call.out.ret = lo.ret
            /\ ~call.out.raised

\* C3 witness: the fallback ran and LibreOffice produced the PDF, the
\* environment variable being set to the empty string
C3_Witness ==
    /\ call.op = "convert_pptx_to_pdf"
    /\ call.in.method = "api"
    /\ ~CredentialPresent
    /\ call.in.x.env_key = ""
    /\ call.out.ret = [fmt |-> "pdf", via |-> "libreoffice",
                       stem |-> call.in.file.stem]

\* the elements of a story that are slide titles
Titles(story) == SelectSeq(story, LAMBDA x : x.t = "Title")

\* the elements of a story that are page breaks
Breaks(story) == SelectSeq(story, LAMBDA x : x.t = "PageBreak")

\* C5: for a presentation of N slides the flow content holds exactly N
\* sections titled "Slide 1" .. "Slide N" in order, and exactly N-1 page
\* breaks (none when N = 0), one immediately before every section but the
\* first, none before the first and none after the last.
C5_SectionsAndBreaks ==
    (call.op = "convert_pptx_to_pdf" /\ call.in.method = "text"
        /\ \E k \in 1..Len(call.out.log) :
             call.out.log[k].e = "Presentation" /\ call.out.log[k].r = "ok") =>
        LET st == call.out.story
            N == Len(call.in.x.parse.slides)
        IN  /\ Len(Titles(st)) = N
            /\ \A i \in 1..N : Titles(st)[i] = Title(i)
            /\ Len(Breaks(st)) = IF N = 0 THEN 0 ELSE N - 1
            /\ N >= 1 => st[1] = Title(1)
            /\ \A k \in 1..Len(st) :
                 /\ st[k].t = "PageBreak" =>
                      k < Len(st) /\ st[k + 1].t = "Title" /\ st[k + 1].n >= 2
                 /\ (st[k].t = "Title" /\ st[k].n >= 2) =>
                      k > 1 /\ st[k - 1].t = "PageBreak"

\* C5 witness: three slides or more, the second without text, came out as
\* a PDF
C5_Witness ==
    /\ call.op = "convert_pptx_to_pdf"
    /\ call.in.method = "text"
    /\ call.out.ret # NoBytes
    /\ Len(call.in.x.parse.slides) >= 3
    /\ call.in.x.parse.slides[2] = <<>>
    /\ Len(Breaks(call.out.story)) >= 2

(***************************************************************************)
(* Properties of the session, under Spec.                                  *)
(***************************************************************************)
\* the credentials the run that just ended sent to the conversion service
PostedKeys ==
    {call.out.log[i].p[2] :
        i \in {j \in 1..Len(call.out.log) : call.out.log[j].e = "requests.post"}}

\* the value of key k in session s, with a marker for an absent key
Stored(s, k) == IF k \in DOMAIN s THEN <<s[k]>> ELSE <<>>

\* the session keys of the page of the run in c: its output and filename
OutputKey(c) ==
    IF c.page = "PowerPoint to PDF" THEN "pdf_output" ELSE "tiff_output"

NameKey(c) ==
    IF c.page = "PowerPoint to PDF" THEN "pdf_filename" ELSE "tiff_filename"

Suffix(c) == IF c.page = "PowerPoint to PDF" THEN ".pdf" ELSE ".tiff"

TraceShown == ErrorShown(call.out.log, "traceback")

\* C11 as stated: a diagnostic trace is shown only for an internal
\* document-generation error, taken here in its widest sense as any error
\* of the text backend once the input format was accepted (parsing the
\* presentation or building the document); never for the rejection of a
\* .ppt input, a missing binary, a subprocess failure or a remote-service
\* error.
C11_Original ==
    call.op = "convert_pptx_to_pdf" /\ TraceShown =>
        /\ call.in.method = "text"
        /\ ~LegacyInput
        /\ \/ ErrorShown(call.out.log, "parse_error")
           \/ ErrorShown(call.out.log, "build_error")

\* the call ran the LibreOffice backend: directly, or as the fallback of
\* the API backend
LibreOfficeRan ==
    /\ call.op = "convert_pptx_to_pdf"
    /\ \/ call.in.method = "libreoffice"
       \/ call.in.method = "api" /\ ~CredentialPresent

\* which of the four failure conditions of the LibreOffice backend the
\* answers x bring about, "none" if none
FailureCondition(x) ==
    IF x.which_libreoffice = None /\ x.which_soffice = None THEN "not_found"
    ELSE IF x.run = "timeout" THEN "timeout"
    ELSE IF x.run = "nonzero" THEN "nonzero"
    ELSE IF x.run = "ok_no_output" THEN "no_output"
    ELSE "none"

\* the messages shown with st.error
Errors(log) ==
    {log[k].a : k \in {j \in 1..Len(log) : log[j].e = "st.error"}}

\* C13: in the LibreOffice backend each of the four failure conditions
\* (binary found under neither name, timeout, non-zero exit, expected
\* output file absent after exit 0) returns failure with one message, and
\* that message differs from the one the backend shows, for the same file,
\* under each of the other three conditions; bytes are returned only when
\* the binary was found, the process exited with code 0 in time and the
\* expected file exists; the subprocess is launched at most once, and not
\* at all when the binary was not found.
C13_DistinctFailures ==
    LibreOfficeRan =>
        LET c == FailureCondition(call.in.x)
            o == call.out
        IN  /\ c # "none" =>
                 /\ o.ret = NoBytes
                 /\ Cardinality(Errors(o.log)) = 1
                 /\ \A x2 \in LibreOfficeAnswers :
                       FailureCondition(x2) \notin {"none", c} =>
                          Errors(convert_pptx_to_pdf_libreoffice(call.in.file, x2).log)
                              # Errors(o.log)
            /\ o.ret # NoBytes =>
                 /\ BinaryFound
                 /\ call.in.x.run \in {"ok_output", "ok_empty"}
            /\ Cardinality({k \in 1..Len(o.log) : o.log[k].e = "run"})
                  <= (IF BinaryFound THEN 1 ELSE 0)

\* the binary is found under its second name only, exits with code 0 and
\* leaves no output file
C13_Witness ==
    /\ call.op = "convert_pptx_to_pdf"
    /\ call.in.method = "libreoffice"
    /\ call.in.x.which_libreoffice = None
    /\ call.in.x.which_soffice = Soffice
    /\ call.in.x.run = "ok_no_output"
    /\ Errors(call.out.log) = {"pdf_not_generated"}
    /\ Occurs(call.out.log, "run")

(***************************************************************************)
(* Properties of the requests, under Spec.                                 *)
(***************************************************************************)
\* the run that just ended pressed Convert
ConversionRequest == call.op = "rerun" /\ call.out.converted

\* the conversion of the run returned bytes, which the run stored, and the
\* success notice was shown
EndedWithSuccess ==
    /\ BytesTruthy(call.out.conv)
    /\ Stored(session, OutputKey(call)) = <<call.out.conv>>
    /\ \E k \in 1..Len(call.out.log) :
          call.out.log[k].e = "st.success"
              /\ call.out.log[k].a = "conversion_successful"

\* a message shown with st.error or st.warning
FailureMessages(log) ==
    {k \in 1..Len(log) : log[k].e \in {"st.error", "st.warning"}}

\* C12 as stated: a conversion request that does not end with a stored
\* result and a success notice ends with at least one failure message
\* (any error or warning counts here), also when the rasterization yields
\* no page image or a backend returns an empty byte string.
C12_Original ==
    ConversionRequest /\ ~EndedWithSuccess =>
        FailureMessages(call.out.log) # {}

\* the positions in log of the events named e
Positions(log, e) == {k \in 1..Len(log) : log[k].e = e}

\* C14: a preview failure never changes the outcome on the PowerPoint page.
\* In a run whose conversion returned bytes, bytes and filename are stored
\* and the success notice is shown before the rasterization library is
\* called for the preview.  In every run that offers a download, the
\* download offers the stored bytes under the stored name whatever the
\* preview rasterization answers, no error or warning is shown from the
\* download button on, and a failed preview (its retry included) ends in
\* the "preview not available" note.
C14_PreviewBestEffort ==
    call.op = "rerun" /\ call.page = "PowerPoint to PDF" =>
        LET o == call.out
            log == o.log
        IN  /\ o.converted /\ BytesTruthy(o.conv) =>
                 /\ Stored(session, "pdf_output") = <<o.conv>>
                 /\ Stored(session, "pdf_filename") = <<<<call.file.stem, ".pdf">>>>
                 /\ o.offered = [data |-> o.conv,
                                 file_name |-> <<call.file.stem, ".pdf">>]
                 /\ \E k \in Positions(log, "st.success") :
                       \A j \in Positions(log, "convert_from_bytes")
                                  \cup Positions(log, "st.download_button") : k < j
            /\ o.offered # NoOffer =>
                 /\ Stored(session, "pdf_output") = <<o.offered.data>>
                 /\ Stored(session, "pdf_filename") = <<o.offered.file_name>>
                 /\ \A b \in Positions(log, "st.download_button") :
                       \A j \in FailureMessages(log) : j < b
                 /\ Positions(log, "convert_from_bytes") # {}
                 /\ o.preview = NoImage =>
                       /\ log[Len(log)].e = "st.info"
                       /\ log[Len(log)].a = "preview_not_available"
            /\ Positions(log, "convert_from_bytes") # {} => o.offered # NoOffer

\* a conversion succeeds and both rasterization attempts of its preview fail
C14_Witness ==
    /\ call.op = "rerun"
    /\ call.page = "PowerPoint to PDF"
    /\ call.out.converted
    /\ BytesTruthy(call.out.conv)
    /\ call.out.offered.data = call.out.conv
    /\ call.out.preview = NoImage
    /\ Cardinality({k \in Positions(call.out.log, "convert_from_bytes") :
                       call.out.log[k].r = "raise"}) = 2

\* C15 as stated: whatever runs came before, when Convert is pressed on the
\* PowerPoint page with the External API method selected and the API key
\* field empty, no request is sent to the remote service and the
\* conversion is the LibreOffice backend's.  Hosts that set
\* CONVERSION_API_KEY are left aside: there the environment supplies the
\* credential.
C15_Original ==
    /\ ConversionRequest
    /\ call.page = "PowerPoint to PDF"
    /\ call.method = "External API"
    /\ call.field = ""
    /\ ~StrTruthy(env.CONVERSION_API_KEY)
    => /\ PostedKeys = {}
       /\ \E k \in 1..Len(call.out.log) :
             call.out.log[k].e = "st.warning"
                 /\ call.out.log[k].a = "api_key_missing"

(***************************************************************************)
(* The retry of the rasterization, under SpecTiffEnv.                      *)
(***************************************************************************)
\* C16: with the filesystem the same throughout the call,
\* convert_pdf_to_tiff calls the rasterization library at most once.  The
\* retry with /app/.apt/usr/bin in the exception handler is never made:
\* when /app/.apt/usr/bin/pdftoppm exists the call was already given a
\* directory, and a call that raises ends the conversion with an error
\* message and no bytes.
C16_AtMostOneRasterCall ==
    call.op = "convert_pdf_to_tiff" =>
        LET calls == RasterCalls(call.out.log) IN
        /\ Len(calls) <= 1
        /\ calls # <<>> /\ Exists(env, Join(CloudDir, "pdftoppm")) =>
              calls[1].a = "poppler_path" /\ Truthy(calls[1].p)
        /\ calls # <<>> /\ calls[1].r = "raise" =>
              /\ call.out.ret = NoBytes
              /\ Errors(call.out.log) # {}

\* the locator found nothing, /app/.apt/usr/bin/pdftoppm exists, and the
\* one call of the rasterization library, given that directory, raised
C16_Witness ==
    /\ call.op = "convert_pdf_to_tiff"
    /\ call.out.loc = None
    /\ Exists(env, Join(CloudDir, "pdftoppm"))
    /\ Len(RasterCalls(call.out.log)) = 1
    /\ RasterCalls(call.out.log)[1].p = CloudDir
    /\ RasterCalls(call.out.log)[1].r = "raise"

====
